---- MODULE Spec2Model ----
(***************************************************************************)
(* Microstock prompt generator backend (backend/server.py).                *)
(*                                                                         *)
(* Text is a sequence of one-character strings.  The response normalizer   *)
(* of generate_prompts (fence extraction, json.loads, line-split fallback) *)
(* is a set of operators on such sequences; the request handlers are       *)
(* actions over the two collections of the document store.                 *)
(***************************************************************************)
EXTENDS Integers, Sequences, FiniteSets, TLC

(***************************************************************************)
(* Characters                                                              *)
(***************************************************************************)
Digits == {"0", "1", "2", "3", "4", "5", "6", "7", "8", "9"}

\* str.strip() with no argument removes whitespace (the ASCII part is modelled)
PyWhitespace == {" ", "\t", "\n", "\r", "\f"}

\* json.decoder.WHITESPACE, skipped between the tokens of a document
JsonWhitespace == {" ", "\t", "\n", "\r"}

\* LStripChars with a fault: the closing parenthesis is left out
LStripCharsNoParen == Digits \cup {".", "-", " "}

\* the argument of lstrip at the fallback: '0123456789.-) '
LStripChars == Digits \cup {".", "-", ")", " "}

\* the backquote character U+0060 (a TLA+ string cannot hold it literally)
BQ == "<bq>"

\* the literal markers searched in the reply: three backquotes, and three
\* backquotes followed by json
Fence == <<BQ, BQ, BQ>>
JsonFence == <<BQ, BQ, BQ, "j", "s", "o", "n">>

(***************************************************************************)
(* Python string primitives, with Python's 0-based indices                 *)
(***************************************************************************)
Min(a, b) == IF a <= b THEN a ELSE b
Max(a, b) == IF a >= b THEN a ELSE b

\* whether sub occurs in s at 0-based index i
MatchAt(s, sub, i) ==
    /\ i >= 0
    /\ i + Len(sub) <= Len(s)
    /\ \A k \in 1..Len(sub) : s[i + k] = sub[k]

\* s.find(sub, start): the lowest index >= start where sub occurs, or -1
PyFind(s, sub, start) ==
    LET hits == {i \in start..(Len(s) - Len(sub)) : MatchAt(s, sub, i)}
    IN  IF hits = {} THEN -1
        ELSE CHOOSE i \in hits : \A j \in hits : i <= j

\* sub in s
PyContains(s, sub) == PyFind(s, sub, 0) # -1

\* s[a:b] for a >= 0 and any integer b (a negative b counts from the end)
PySlice(s, a, b) ==
    LET hi == IF b < 0 THEN Max(Len(s) + b, 0) ELSE Min(b, Len(s))
        lo == Min(a, Len(s))
    IN  IF lo >= hi THEN <<>> ELSE SubSeq(s, lo + 1, hi)

\* s.lstrip(chars)
PyLStrip(s, chars) ==
    LET keep == {i \in 1..Len(s) : s[i] \notin chars}
    IN  IF keep = {} THEN <<>>
        ELSE SubSeq(s, CHOOSE i \in keep : \A j \in keep : i <= j, Len(s))

\* s.strip()
PyStrip(s) ==
    LET keep == {i \in 1..Len(s) : s[i] \notin PyWhitespace}
    IN  IF keep = {} THEN <<>>
        ELSE SubSeq(s, CHOOSE i \in keep : \A j \in keep : i <= j,
                       CHOOSE i \in keep : \A j \in keep : i >= j)

\* s.split('\n'): the pieces between the newlines, empty pieces kept
RECURSIVE PySplitLines(_)
PySplitLines(s) ==
    LET nl == PyFind(s, <<"\n">>, 0)
    IN  IF nl = -1 THEN <<s>>
        ELSE <<PySlice(s, 0, nl)>> \o PySplitLines(PySlice(s, nl + 1, Len(s)))

\* [x for x in xs if keep(x)]
RECURSIVE NonEmptyOnly(_)
NonEmptyOnly(xs) ==
    IF xs = <<>> THEN <<>>
    ELSE IF Head(xs) = <<>> THEN NonEmptyOnly(Tail(xs))
         ELSE <<Head(xs)>> \o NonEmptyOnly(Tail(xs))

(***************************************************************************)
(* json.loads.  A decoded value is [t |-> type, v |-> payload]: "str" with *)
(* its characters, "num" with its lexeme, "list" with its elements, "dict" *)
(* with its <<key, value>> pairs, "lit" with the literal's name.  A scan   *)
(* returns [ok, val, next]: next is the 1-based position after the value.  *)
(***************************************************************************)
JStr(chars) == [t |-> "str", v |-> chars]
JNum(chars) == [t |-> "num", v |-> chars]
JList(elems) == [t |-> "list", v |-> elems]
JDict(pairs) == [t |-> "dict", v |-> pairs]
JLit(name) == [t |-> "lit", v |-> name]

ScanFail == [ok |-> FALSE, val |-> JLit(<<>>), next |-> 0]
ScanOk(val, next) == [ok |-> TRUE, val |-> val, next |-> next]

\* WHITESPACE.match(s, i).end(): the first position >= i holding no whitespace
SkipWs(s, i) ==
    LET stop == {j \in i..Len(s) : s[j] \notin JsonWhitespace}
    IN  IF stop = {} THEN Max(i, Len(s) + 1)
        ELSE CHOOSE j \in stop : \A k \in stop : j <= k

\* the end of the run of digits starting at position i (i itself when none)
DigitsEnd(s, i) ==
    LET stop == {j \in i..Len(s) : s[j] \notin Digits}
    IN  IF stop = {} THEN Max(i, Len(s) + 1)
        ELSE CHOOSE j \in stop : \A k \in stop : j <= k

CharAt(s, i) == IF i >= 1 /\ i <= Len(s) THEN s[i] ELSE ""

\* the escapes of a JSON string (BACKSLASH in json.decoder); \uXXXX is not
\* modelled: no text of the model holds the letter u after a backslash
EscapeOf(c) ==
    CASE c = "\"" -> "\""
      [] c = "\\" -> "\\"
      [] c = "/" -> "/"
      [] c = "n" -> "\n"
      [] c = "r" -> "\r"
      [] c = "t" -> "\t"
      [] c = "f" -> "\f"
      [] OTHER -> ""

\* control characters a strict JSON string may not hold unescaped
ControlChars == {"\n", "\r", "\t", "\f"}

\* scanstring(s, i): i is the position after the opening quote
RECURSIVE ScanString(_, _, _)
ScanString(s, i, acc) ==
    IF i > Len(s) THEN ScanFail
    ELSE IF s[i] = "\"" THEN ScanOk(JStr(acc), i + 1)
    ELSE IF s[i] = "\\" THEN
        IF EscapeOf(CharAt(s, i + 1)) = "" THEN ScanFail
        ELSE ScanString(s, i + 2, Append(acc, EscapeOf(CharAt(s, i + 1))))
    ELSE IF s[i] \in ControlChars THEN ScanFail
    ELSE ScanString(s, i + 1, Append(acc, s[i]))

\* NUMBER_RE: (-?(?:0|[1-9]\d*))(\.\d+)?([eE][-+]?\d+)?
ScanNumber(s, i) ==
    LET p == IF CharAt(s, i) = "-" THEN i + 1 ELSE i
        intEnd == IF CharAt(s, p) = "0" THEN p + 1
                  ELSE IF CharAt(s, p) \in Digits THEN DigitsEnd(s, p)
                  ELSE p
        fracEnd == IF CharAt(s, intEnd) = "." /\ CharAt(s, intEnd + 1) \in Digits
                   THEN DigitsEnd(s, intEnd + 1)
                   ELSE intEnd
        q == IF CharAt(s, fracEnd + 1) \in {"+", "-"} THEN fracEnd + 2 ELSE fracEnd + 1
        expEnd == IF CharAt(s, fracEnd) \in {"e", "E"} /\ CharAt(s, q) \in Digits
                  THEN DigitsEnd(s, q)
                  ELSE fracEnd
    IN  IF intEnd = p THEN ScanFail
        ELSE ScanOk(JNum(SubSeq(s, i, expEnd - 1)), expEnd)

Literals ==
    { <<"n", "u", "l", "l">>, <<"t", "r", "u", "e">>, <<"f", "a", "l", "s", "e">>,
      <<"N", "a", "N">>, <<"I", "n", "f", "i", "n", "i", "t", "y">>,
      <<"-", "I", "n", "f", "i", "n", "i", "t", "y">> }

RECURSIVE ScanOnce(_, _)
RECURSIVE ScanArray(_, _, _)
RECURSIVE ScanObject(_, _, _)

\* JSONArray: i is the position of the next element, acc the elements so far
ScanArray(s, i, acc) ==
    LET elem == ScanOnce(s, i)
        j == SkipWs(s, elem.next)
    IN  IF ~elem.ok THEN ScanFail
        ELSE IF CharAt(s, j) = "]" THEN ScanOk(JList(Append(acc, elem.val)), j + 1)
        ELSE IF CharAt(s, j) = "," THEN ScanArray(s, SkipWs(s, j + 1), Append(acc, elem.val))
        ELSE ScanFail

\* JSONObject: i is the position of the next key's opening quote
ScanObject(s, i, acc) ==
    LET key == ScanString(s, i + 1, <<>>)
        c == SkipWs(s, key.next)
        val == ScanOnce(s, SkipWs(s, c + 1))
        j == SkipWs(s, val.next)
    IN  IF CharAt(s, i) # "\"" THEN ScanFail
        ELSE IF ~key.ok THEN ScanFail
        ELSE IF CharAt(s, c) # ":" THEN ScanFail
        ELSE IF ~val.ok THEN ScanFail
        ELSE IF CharAt(s, j) = "}" THEN ScanOk(JDict(Append(acc, <<key.val, val.val>>)), j + 1)
        ELSE IF CharAt(s, j) = "," THEN
            ScanObject(s, SkipWs(s, j + 1), Append(acc, <<key.val, val.val>>))
        ELSE ScanFail

\* scan_once(s, idx) of json.scanner
ScanOnce(s, i) ==
    LET c == CharAt(s, i)
        lits == {l \in Literals : MatchAt(s, l, i - 1)}
        num == ScanNumber(s, i)
    IN  IF c = "" THEN ScanFail
        ELSE IF c = "\"" THEN ScanString(s, i + 1, <<>>)
        ELSE IF c = "[" THEN
            IF CharAt(s, SkipWs(s, i + 1)) = "]"
            THEN ScanOk(JList(<<>>), SkipWs(s, i + 1) + 1)
            ELSE ScanArray(s, SkipWs(s, i + 1), <<>>)
        ELSE IF c = "{" THEN
            IF CharAt(s, SkipWs(s, i + 1)) = "}"
            THEN ScanOk(JDict(<<>>), SkipWs(s, i + 1) + 1)
            ELSE ScanObject(s, SkipWs(s, i + 1), <<>>)
        ELSE IF num.ok THEN num
        ELSE IF lits # {} THEN
            LET l == CHOOSE l \in lits : TRUE IN ScanOk(JLit(l), i + Len(l))
        ELSE ScanFail

\* json.loads(s): one value with whitespace around it and nothing after it;
\* ok = FALSE stands for JSONDecodeError
JsonLoads(s) ==
    LET r == ScanOnce(s, SkipWs(s, 1))
    IN  IF r.ok /\ SkipWs(s, r.next) = Len(s) + 1 THEN r ELSE ScanFail

(***************************************************************************)
(* The response normalizer of generate_prompts ("Parse response")          *)
(***************************************************************************)
\* ExtractFenced with a fault: the json-flavoured marker is skipped as if it
\* were the generic one (3 characters instead of 7)
ExtractFencedShortMarker(response_text) ==
    IF PyContains(response_text, Fence) THEN
        LET json_start == PyFind(response_text, Fence, 0) + 3
            json_end == PyFind(response_text, Fence, json_start)
        IN  PyStrip(PySlice(response_text, json_start, json_end))
    ELSE response_text

\* response_text after the fence extraction: the text between the first
\* json-flavoured (else the first generic) fence and the next fence,
\* stripped; find returns -1 when no fence closes the block, and the slice
\* then ends one character before the end of the text
ExtractFenced(response_text) ==
    IF PyContains(response_text, JsonFence) THEN
        LET json_start == PyFind(response_text, JsonFence, 0) + 7
            json_end == PyFind(response_text, Fence, json_start)
        IN  PyStrip(PySlice(response_text, json_start, json_end))
    ELSE IF PyContains(response_text, Fence) THEN
        LET json_start == PyFind(response_text, Fence, 0) + 3
            json_end == PyFind(response_text, Fence, json_start)
        IN  PyStrip(PySlice(response_text, json_start, json_end))
    ELSE response_text

\* [line.strip() for line in response_text.split('\n') if line.strip()]
RECURSIVE StripEach(_)
StripEach(lines) ==
    IF lines = <<>> THEN <<>>
    ELSE <<PyStrip(Head(lines))>> \o StripEach(Tail(lines))

\* [p.lstrip('0123456789.-) ') for p in prompts_list if p]
RECURSIVE LStripEach(_)
LStripEach(ps) ==
    IF ps = <<>> THEN <<>>
    ELSE IF Head(ps) = <<>> THEN LStripEach(Tail(ps))
         ELSE <<PyLStrip(Head(ps), LStripChars)>> \o LStripEach(Tail(ps))

\* the except branch: the line-split fallback on the (extracted) text
FallbackLines(response_text) ==
    LStripEach(NonEmptyOnly(StripEach(PySplitLines(response_text))))

RECURSIVE WrapStr(_)
WrapStr(ps) == IF ps = <<>> THEN <<>> ELSE <<JStr(Head(ps))>> \o WrapStr(Tail(ps))

\* prompts_list: the decoded list as it is (its elements need not be
\* strings), or the fallback's strings
ParseResponse(response_text) ==
    LET extracted == ExtractFenced(response_text)
        r == JsonLoads(extracted)
    IN  IF r.ok /\ r.val.t = "list" THEN r.val.v
        ELSE WrapStr(FallbackLines(extracted))

(***************************************************************************)
(* Request models and records                                              *)
(***************************************************************************)
\* Python's None (an absent Optional[str], an unset environment variable)
None == "<None>"

\* GeneratePromptRequest: the Literal types of its fields
Styles == {"photo", "illustration", "vector", "logo"}
Providers == {"openai", "claude", "gemini", "groq"}
OutputFormats == {"json", "text"}

\* FastAPI validates the body against GeneratePromptRequest before the
\* handler runs; a value outside a Literal is answered 422 by the framework
ValidRequest(request) ==
    /\ request.style \in Styles
    /\ request.provider \in Providers
    /\ request.output_format \in OutputFormats

\* ResolveApiKey with a fault: the shared key is used without the check
\* that it is configured
ResolveApiKeyUnchecked(request, environ_key) ==
    IF request.use_emergent_key
    THEN [ok |-> TRUE, api_key |-> environ_key, status |-> 0, detail |-> ""]
    ELSE IF request.api_key \notin {None, ""}
        THEN [ok |-> TRUE, api_key |-> request.api_key, status |-> 0, detail |-> ""]
    ELSE [ok |-> FALSE, api_key |-> None, status |-> 400, detail |-> "API key required"]

\* ResolveApiKey with a fault: the two status codes are exchanged
ResolveApiKeySwapped(request, environ_key) ==
    IF request.use_emergent_key THEN
        IF environ_key \in {None, ""}
        THEN [ok |-> FALSE, api_key |-> None, status |-> 400,
              detail |-> "Emergent LLM key not configured"]
        ELSE [ok |-> TRUE, api_key |-> environ_key, status |-> 0, detail |-> ""]
    ELSE IF request.api_key \notin {None, ""}
        THEN [ok |-> TRUE, api_key |-> request.api_key, status |-> 0, detail |-> ""]
    ELSE [ok |-> FALSE, api_key |-> None, status |-> 500, detail |-> "API key required"]

\* "Determine API key": the key to use, or the HTTPException raised
ResolveApiKey(request, environ_key) ==
    IF request.use_emergent_key THEN
        IF environ_key \in {None, ""}
        THEN [ok |-> FALSE, api_key |-> None, status |-> 500,
              detail |-> "Emergent LLM key not configured"]
        ELSE [ok |-> TRUE, api_key |-> environ_key, status |-> 0, detail |-> ""]
    ELSE IF request.api_key \notin {None, ""}
        THEN [ok |-> TRUE, api_key |-> request.api_key, status |-> 0, detail |-> ""]
    ELSE [ok |-> FALSE, api_key |-> None, status |-> 400, detail |-> "API key required"]

\* style_descriptions
StyleDescription(style) ==
    CASE style = "photo" -> "realistic photography"
      [] style = "illustration" -> "digital illustration or artwork"
      [] style = "vector" -> "vector graphics with clean lines and shapes"
      [] style = "logo" -> "logo design with branding elements"

\* generation_prompt: the f-string's interpolated parts, in order
GenerationPrompt(request) ==
    <<request.quantity, StyleDescription(request.style), request.keyword, request.style>>

\* "Generate based on provider": the helper the handler awaits
ProviderPath(provider) ==
    IF provider \in {"openai", "claude", "gemini"} THEN "generate_with_emergent_integrations"
    ELSE IF provider = "groq" THEN "generate_with_groq"
    ELSE "invalid"

\* the HTTPException a helper raises when its provider call raises
ProviderErrorDetail(path) ==
    IF path = "generate_with_groq" THEN "Error generating with Groq"
    ELSE "Error generating prompts"

\* Uuid4 with a fault: one identifier for every record
Uuid4Constant(n) == 1

\* uuid.uuid4(): the n-th identifier drawn is n (identifiers never repeat)
Uuid4(n) == n

\* datetime.isoformat() and datetime.fromisoformat(): a stored timestamp is
\* text, tagged here, and read back as a timestamp
IsoFormat(t) == <<"iso", t>>
FromIsoFormat(x) == x[2]

\* PromptGeneration(...): the model's fields from the request and the
\* normalized list, with the default id and created_at
PromptGeneration(request, prompts_list, id, created_at) ==
    [id |-> id,
     keyword |-> request.keyword,
     style |-> request.style,
     provider |-> request.provider,
     model |-> request.model,
     quantity |-> request.quantity,
     prompts |-> prompts_list,
     output_format |-> request.output_format,
     created_at |-> created_at]

\* pydantic's validation of prompts: List[str]: every element is a string
PromptsValid(prompts_list) ==
    \A i \in 1..Len(prompts_list) : prompts_list[i].t = "str"

\* FavoritePrompt(...)
FavoritePrompt(request, id, saved_at) ==
    [id |-> id,
     prompt_generation_id |-> request.prompt_generation_id,
     prompt_text |-> request.prompt_text,
     keyword |-> request.keyword,
     style |-> request.style,
     saved_at |-> saved_at]

\* model_dump() with created_at replaced by its isoformat()
GenerationDoc(generation) == [generation EXCEPT !.created_at = IsoFormat(@)]
FavoriteDoc(favorite) == [favorite EXCEPT !.saved_at = IsoFormat(@)]

(***************************************************************************)
(* The document store: a collection is the sequence of its documents in    *)
(* insertion order                                                         *)
(***************************************************************************)
\* InsertOne with a fault: the document replaces the collection's last one
InsertOneReplacing(collection, doc) ==
    IF collection = <<>> THEN <<doc>>
    ELSE [collection EXCEPT ![Len(collection)] = doc]

\* insert_one(doc)
InsertOne(collection, doc) == Append(collection, doc)

\* DeleteOne with a fault: the filter is ignored, the first document goes
DeleteOneUnfiltered(collection, id) ==
    IF collection = <<>> THEN [deleted_count |-> 0, collection |-> collection]
    ELSE [deleted_count |-> 1, collection |-> Tail(collection)]

\* delete_one({"id": id}): the first matching document is removed
DeleteOne(collection, id) ==
    LET hits == {i \in 1..Len(collection) : collection[i].id = id}
    IN  IF hits = {} THEN [deleted_count |-> 0, collection |-> collection]
        ELSE LET i == CHOOSE i \in hits : \A j \in hits : i <= j
             IN  [deleted_count |-> 1,
                  collection |-> SubSeq(collection, 1, i - 1)
                                 \o SubSeq(collection, i + 1, Len(collection))]

\* to_list(100)
ToListLimit == 100

\* find({}).sort(field, -1).to_list(100): the documents in an order that
\* does not increase along field (the order of ties is the store's choice),
\* cut to the limit; key(doc) is the field's value
Orderings(n) == {p \in [1..n -> 1..n] : \A i, j \in 1..n : i # j => p[i] # p[j]}

FindSortedDesc(collection, field) ==
    LET n == Len(collection)
        sorted == {p \in Orderings(n) :
                     \A i \in 1..n : \A j \in 1..n :
                        i < j => collection[p[i]][field][2] >= collection[p[j]][field][2]}
    IN  {[i \in 1..Min(n, ToListLimit) |-> collection[p[i]]] : p \in sorted}

\* the handlers turn the stored text of a timestamp back into a timestamp
RECURSIVE ParseDates(_, _)
ParseDates(docs, field) ==
    IF docs = <<>> THEN <<>>
    ELSE <<[Head(docs) EXCEPT ![field] = FromIsoFormat(@)]>> \o ParseDates(Tail(docs), field)

(***************************************************************************)
(* State                                                                   *)
(***************************************************************************)
VARIABLES
    environ_key,         \* os.environ.get('EMERGENT_LLM_KEY')
    prompt_generations,  \* db.prompt_generations
    favorites,           \* db.favorites
    uuids,               \* how many identifiers uuid4 has issued
    now,                 \* the last reading of the server's clock
    handlers,            \* the generate_prompts calls, in order of arrival
    last,                \* the latest call of another route and its response
    ncalls,              \* how many calls of the other routes were served
    n_pc, n_list, n_text, n_prompts   \* the normalizer taken alone

store == <<prompt_generations, favorites>>
server == <<environ_key, prompt_generations, favorites, uuids, now, handlers, last, ncalls>>
normalizer == <<n_pc, n_list, n_text, n_prompts>>
vars == <<server, normalizer>>

\* datetime.now(timezone.utc): a reading is not earlier than the last one;
\* whether it is later is up to the clock
ClockReadings == {now, now + 1}

NoResponse == [route |-> "", arg |-> 0, status |-> 0, detail |-> "", body |-> <<>>]

ServerInit ==
    /\ environ_key \in {None, "sk-emergent"}
    /\ prompt_generations = <<>>
    /\ favorites = <<>>
    /\ uuids = 0
    /\ now = 0
    /\ handlers = <<>>
    /\ last = NoResponse
    /\ ncalls = 0

NormalizerIdle ==
    /\ n_pc = "idle"
    /\ n_list = <<>>
    /\ n_text = <<>>
    /\ n_prompts = <<>>

(***************************************************************************)
(* POST /api/generate                                                      *)
(***************************************************************************)
\* A call of generate_prompts is a record: the request, where the coroutine
\* stands (pc: awaiting the provider, awaiting the insert, done), the key,
\* helper and instruction it uses, how many outbound provider calls and
\* inserts it has made, what the provider did (outcome: "returned" with
\* response_text, or "raised"), and its answer.
\*
\* a call that has been answered: the HTTP status and the error detail or
\* the returned PromptGeneration (body holds it, or is empty)
Answered(h, status, detail, body) ==
    [h EXCEPT !.pc = "done", !.status = status, !.detail = detail, !.body = body]

\* the call up to its first await: request validation, the API key, the
\* prompt, and the dispatch to the provider's helper, which makes the
\* outbound call
Arrive(request) ==
    LET key == ResolveApiKey(request, environ_key)
        path == ProviderPath(request.provider)
        h == [request |-> request, pc |-> "new", api_key |-> None, path |-> "",
              instruction |-> <<>>, provider_calls |-> 0,
              outcome |-> "", response_text |-> <<>>, inserts |-> 0,
              status |-> 0, detail |-> "", body |-> <<>>]
    IN  IF ~ValidRequest(request) THEN Answered(h, 422, "validation error", <<>>)
        ELSE IF ~key.ok THEN Answered(h, key.status, key.detail, <<>>)
        ELSE IF path = "invalid" THEN Answered(h, 400, "Invalid provider", <<>>)
        ELSE [h EXCEPT !.pc = "provider", !.api_key = key.api_key, !.path = path,
                       !.instruction = GenerationPrompt(request),
                       !.provider_calls = 1]

generate_prompts(request) ==
    /\ handlers' = Append(handlers, Arrive(request))
    /\ UNCHANGED <<environ_key, prompt_generations, favorites, uuids, now, last, ncalls>>
    /\ UNCHANGED normalizer

\* ProviderFailed with a fault: the call is made once more before giving up
ProviderFailedRetry(h) ==
    IF h.provider_calls < 2
    THEN [h EXCEPT !.provider_calls = @ + 1, !.outcome = ""]
    ELSE Answered(h, 500, ProviderErrorDetail(h.path), <<>>)

\* the helper's except branch: HTTPException(500), which generate_prompts
\* re-raises
ProviderFailed(h) == Answered(h, 500, ProviderErrorDetail(h.path), <<>>)

provider_raises(r) ==
    /\ r \in 1..Len(handlers)
    /\ handlers[r].pc = "provider"
    /\ handlers' = [handlers EXCEPT ![r] = ProviderFailed([@ EXCEPT !.outcome = "raised"])]
    /\ UNCHANGED <<environ_key, prompt_generations, favorites, uuids, now, last, ncalls>>
    /\ UNCHANGED normalizer

\* the provider's reply arrives: "Parse response", "Create generation
\* object" (a pydantic ValidationError is an Exception: 500), and the
\* insert is sent to the store
Replied(h, response_text, id, created_at) ==
    LET prompts_list == ParseResponse(response_text)
    IN  IF ~PromptsValid(prompts_list)
        THEN Answered(h, 500, "validation error for PromptGeneration", <<>>)
        ELSE [h EXCEPT !.pc = "insert", !.inserts = @ + 1,
                       !.body = <<PromptGeneration(h.request, prompts_list, id, created_at)>>]

provider_returns(r, response_text) ==
    /\ r \in 1..Len(handlers)
    /\ handlers[r].pc = "provider"
    /\ \E t \in ClockReadings :
        \E h \in {Replied([handlers[r] EXCEPT !.outcome = "returned",
                                               !.response_text = response_text],
                           response_text, Uuid4(uuids + 1), t)} :
            /\ handlers' = [handlers EXCEPT ![r] = h]
            /\ IF h.pc = "insert"
               THEN uuids' = uuids + 1 /\ now' = t
               ELSE t = now /\ UNCHANGED <<uuids, now>>
    /\ UNCHANGED <<environ_key, prompt_generations, favorites, last, ncalls>>
    /\ UNCHANGED normalizer

\* "Save to database" completes and the generation is returned
insert_done(r) ==
    /\ r \in 1..Len(handlers)
    /\ handlers[r].pc = "insert"
    /\ prompt_generations' =
          InsertOne(prompt_generations, GenerationDoc(handlers[r].body[1]))
    /\ handlers' = [handlers EXCEPT ![r] = Answered(@, 200, "", @.body)]
    /\ UNCHANGED <<environ_key, favorites, uuids, now, last, ncalls>>
    /\ UNCHANGED normalizer

(***************************************************************************)
(* GET /api/history, POST /api/favorites, GET /api/favorites,              *)
(* DELETE /api/favorites/{favorite_id}                                     *)
(***************************************************************************)
Response(route, arg, status, detail, body) ==
    [route |-> route, arg |-> arg, status |-> status, detail |-> detail, body |-> body]

get_history ==
    /\ \E found \in FindSortedDesc(prompt_generations, "created_at") :
         last' = Response("get_history", 0, 200, "", ParseDates(found, "created_at"))
    /\ ncalls' = ncalls + 1
    /\ UNCHANGED <<environ_key, prompt_generations, favorites, uuids, now, handlers>>
    /\ UNCHANGED normalizer

save_favorite(request) ==
    /\ \E t \in ClockReadings :
        LET favorite == FavoritePrompt(request, Uuid4(uuids + 1), t)
        IN  /\ favorites' = InsertOne(favorites, FavoriteDoc(favorite))
            /\ last' = Response("save_favorite", 0, 200, "", <<favorite>>)
            /\ now' = t
    /\ uuids' = uuids + 1
    /\ ncalls' = ncalls + 1
    /\ UNCHANGED <<environ_key, prompt_generations, handlers>>
    /\ UNCHANGED normalizer

get_favorites ==
    /\ \E found \in FindSortedDesc(favorites, "saved_at") :
         last' = Response("get_favorites", 0, 200, "", ParseDates(found, "saved_at"))
    /\ ncalls' = ncalls + 1
    /\ UNCHANGED <<environ_key, prompt_generations, favorites, uuids, now, handlers>>
    /\ UNCHANGED normalizer

\* the response of delete_favorite for a deleted_count
DeleteOutcome(favorite_id, deleted_count) ==
    IF deleted_count = 0
    THEN Response("delete_favorite", favorite_id, 404, "Favorite not found", <<>>)
    ELSE Response("delete_favorite", favorite_id, 200, "Favorite deleted successfully", <<>>)

delete_favorite(favorite_id) ==
    LET result == DeleteOne(favorites, favorite_id)
    IN  /\ favorites' = result.collection
        /\ last' = DeleteOutcome(favorite_id, result.deleted_count)
        /\ ncalls' = ncalls + 1
        /\ UNCHANGED <<environ_key, prompt_generations, uuids, now, handlers>>
        /\ UNCHANGED normalizer

(***************************************************************************)
(* Inputs                                                                  *)
(***************************************************************************)
\* SpecGenerate: how many generate calls arrive
MaxArrivals == 1
\* Spec: how many calls arrive, of all routes together
MaxCalls == 3

\* the request bodies a client sends: every provider and one value outside
\* the enum (backend_test.py sends "invalid_provider"), every way of giving
\* or omitting the keys
GenerateRequests ==
    [keyword : {"sunset beach"},
     style : {"photo"},
     provider : Providers \cup {"invalid_provider"},
     model : {"gpt-5.1"},
     quantity : {2},
     output_format : {"json"},
     api_key : {None, "", "sk-caller"},
     use_emergent_key : BOOLEAN]

\* the requests of Spec, those of backend_test.py: openai with the shared
\* key, and openai with no key at all
ClientRequests ==
    {q \in GenerateRequests : q.provider = "openai" /\ q.api_key = None}

\* replies of a provider: a fenced JSON array of strings, a bare JSON array
\* holding a number, a numbered list, a JSON value that is not a list
FencedReply ==
    <<BQ, BQ, BQ, "j", "s", "o", "n", "\n", "[", "\"", "A", " ",
      "b", "e", "a", "c", "h", "\"", ",", " ", "\"", "T", "i", "d",
      "e", " ", "p", "o", "o", "l", "\"", "]", "\n", BQ, BQ, BQ>>
NumberArrayReply == <<"[", "1", "]">>
NumberedListReply ==
    <<"1", ".", " ", "f", "o", "o", "\n", "2", ")", " ", "b", "a",
      "r">>
JsonStringReply == <<"\"", "f", "o", "o", "\"">>

ReplyTexts == {FencedReply, NumberArrayReply, NumberedListReply, JsonStringReply}

\* the replies of Spec
ClientReplyTexts == {FencedReply, NumberArrayReply}

\* SaveFavoriteRequest bodies: the generation referred to need not exist
SaveFavoriteRequests ==
    [prompt_generation_id : {0} \cup {prompt_generations[i].id : i \in 1..Len(prompt_generations)},
     prompt_text : {"Golden hour tide pool"},
     keyword : {"sunset beach"},
     style : {"photo"}]

\* identifiers a client may ask to delete: any issued one, and 0, which
\* uuid4 never issues
DeleteIds == 0..uuids

(***************************************************************************)
(* The server: all routes                                                  *)
(***************************************************************************)
Init == ServerInit /\ NormalizerIdle

Arrived == Len(handlers) + ncalls

Next ==
    \/ \E request \in ClientRequests : Arrived < MaxCalls /\ generate_prompts(request)
    \/ \E r \in 1..Len(handlers) : provider_raises(r)
    \/ \E r \in 1..Len(handlers) : \E text \in ClientReplyTexts : provider_returns(r, text)
    \/ \E r \in 1..Len(handlers) : insert_done(r)
    \/ Arrived < MaxCalls /\ get_history
    \/ \E request \in SaveFavoriteRequests : Arrived < MaxCalls /\ save_favorite(request)
    \/ Arrived < MaxCalls /\ get_favorites
    \/ \E id \in DeleteIds : Arrived < MaxCalls /\ delete_favorite(id)

Spec == Init /\ [][Next]_vars

(***************************************************************************)
(* The generate route alone, over every request body                       *)
(***************************************************************************)
NextGenerate ==
    \/ \E request \in GenerateRequests :
          Len(handlers) < MaxArrivals /\ generate_prompts(request)
    \/ \E r \in 1..Len(handlers) : provider_raises(r)
    \/ \E r \in 1..Len(handlers) : \E text \in ReplyTexts : provider_returns(r, text)
    \/ \E r \in 1..Len(handlers) : insert_done(r)

SpecGenerate == Init /\ [][NextGenerate]_vars

(***************************************************************************)
(* The normalizer alone: a list of strings encoded as a fenced JSON block, *)
(* or a raw reply, is fed to "Parse response"                              *)
(***************************************************************************)
\* a list holds at most MaxStrings strings of at most MaxChars characters
\* in all; a raw reply holds at most MaxReplyLen characters
MaxStrings == 2
MaxChars == 3
MaxReplyLen == 3

\* characters of the strings: a letter, the backquote, and the characters
\* JSON escapes
StringChars == {"a", BQ, "\"", "\\", "\n"}

\* characters of the raw replies
ReplyChars == {"a", "1", ".", ")", "-", " ", "\n", "[", "]", "\"", BQ}

\* json.dumps of a string: the quote, the backslash and the control
\* characters are escaped
RECURSIVE EscapeChars(_)
EscapeChars(chars) ==
    IF chars = <<>> THEN <<>>
    ELSE LET c == Head(chars)
             e == CASE c = "\"" -> <<"\\", "\"">>
                    [] c = "\\" -> <<"\\", "\\">>
                    [] c = "\n" -> <<"\\", "n">>
                    [] c = "\r" -> <<"\\", "r">>
                    [] c = "\t" -> <<"\\", "t">>
                    [] c = "\f" -> <<"\\", "f">>
                    [] OTHER -> <<c>>
         IN  e \o EscapeChars(Tail(chars))

\* json.dumps of a list of strings: ["...", "..."]
RECURSIVE JoinDumps(_)
JoinDumps(strings) ==
    IF strings = <<>> THEN <<>>
    ELSE <<"\"">> \o EscapeChars(Head(strings)) \o <<"\"">>
         \o (IF Tail(strings) = <<>> THEN <<>> ELSE <<",", " ">>)
         \o JoinDumps(Tail(strings))

JsonDumps(strings) == <<"[">> \o JoinDumps(strings) \o <<"]">>

\* the array in a json-flavoured fenced block, as a model replies
FencedJson(strings) == JsonFence \o <<"\n">> \o JsonDumps(strings) \o <<"\n">> \o Fence

\* the texts of exactly n characters
TextsOfLen(chars, n) == [1..n -> chars]

\* the lists of at most n strings holding at most total characters together
RECURSIVE StringLists(_, _)
StringLists(n, total) ==
    IF n = 0 THEN {<<>>}
    ELSE {<<>>} \cup
         UNION { {<<s>> \o rest : s \in TextsOfLen(StringChars, k),
                                   rest \in StringLists(n - 1, total - k)}
                 : k \in 0..total }

Distinct(strings) ==
    \A i, j \in 1..Len(strings) : i # j => strings[i] # strings[j]

\* the scenario of the specification's testable properties
ScenarioList ==
    << <<"A", " ", "l", "i", "t", " ", "b", "e", "a", "c", "h", " ",
         "a", "t", " ", "d", "a", "w", "n">>,
       <<"G", "o", "l", "d", "e", "n", " ", "h", "o", "u", "r", " ",
         "t", "i", "d", "e", " ", "p", "o", "o", "l">> >>

InputLists ==
    {l \in StringLists(MaxStrings, MaxChars) : Distinct(l)} \cup {ScenarioList}

RawReplies ==
    UNION {TextsOfLen(ReplyChars, n) : n \in 0..MaxReplyLen} \cup {NumberedListReply}

NormalizerInit ==
    \/ /\ n_pc = "list"
       /\ n_list \in InputLists
       /\ n_text = <<>>
       /\ n_prompts = <<>>
    \/ /\ n_pc = "reply"
       /\ n_list = <<>>
       /\ n_text \in RawReplies
       /\ n_prompts = <<>>

\* the list is encoded as the provider's reply
encode_fenced ==
    /\ n_pc = "list"
    /\ n_text' = FencedJson(n_list)
    /\ n_pc' = "fenced"
    /\ UNCHANGED <<n_list, n_prompts>>
    /\ UNCHANGED server

\* "Parse response" on the reply
parse_response ==
    /\ n_pc \in {"fenced", "reply"}
    /\ n_prompts' = ParseResponse(n_text)
    /\ n_pc' = IF n_pc = "fenced" THEN "parsed_fenced" ELSE "parsed_reply"
    /\ UNCHANGED <<n_list, n_text>>
    /\ UNCHANGED server

NextNormalizer == encode_fenced \/ parse_response

\* the server is idle, with no shared key configured
InitNormalizer ==
    /\ ServerInit
    /\ environ_key = None
    /\ NormalizerInit

SpecNormalizer == InitNormalizer /\ [][NextNormalizer]_vars

(***************************************************************************)
(* Properties of the generate route (SpecGenerate)                         *)
(***************************************************************************)
\* no credential source of the request yields a usable key
NoUsableKey(request) ==
    \/ request.use_emergent_key /\ environ_key \in {None, ""}
    \/ ~request.use_emergent_key /\ request.api_key \in {None, ""}

MissingCredentialDetails == {"API key required", "Emergent LLM key not configured"}

\* C1: a generate request that resolves no usable key is answered with an
\* error without any outbound provider call and without any insert of a
\* PromptGeneration; when the body passes request validation the error is
\* the missing-credential one
C1_NoKeyNoProviderCall ==
    \A r \in 1..Len(handlers) :
        LET h == handlers[r]
        IN  NoUsableKey(h.request) =>
              /\ h.pc = "done"
              /\ h.status \in 400..599
              /\ h.provider_calls = 0
              /\ h.inserts = 0
              /\ h.body = <<>>
              /\ ValidRequest(h.request) => h.detail \in MissingCredentialDetails

\* a request asking for the shared key, which is not configured, was refused
C1_Witness ==
    \E r \in 1..Len(handlers) :
        /\ handlers[r].request.use_emergent_key
        /\ environ_key = None
        /\ handlers[r].request.provider = "groq"
        /\ handlers[r].detail = "Emergent LLM key not configured"
        /\ handlers[r].provider_calls = 0

\* C2 as stated: every missing-credential failure is answered 400, whichever
\* credential source is missing
C2_MissingCredentialIsClientError ==
    \A r \in 1..Len(handlers) :
        handlers[r].detail \in MissingCredentialDetails => handlers[r].status = 400

\* C2, amended: a missing caller key (use_emergent_key false, api_key absent
\* or empty) is answered 400; a shared key that is not configured
\* (use_emergent_key true) is answered 500
C2_CallerKey400SharedKey500 ==
    \A r \in 1..Len(handlers) :
        LET h == handlers[r]
        IN  ValidRequest(h.request) /\ NoUsableKey(h.request) =>
              /\ h.pc = "done"
              /\ h.status = IF h.request.use_emergent_key THEN 500 ELSE 400

\* a request with an empty caller key was answered 400
C2_Witness ==
    \E r \in 1..Len(handlers) :
        /\ ~handlers[r].request.use_emergent_key
        /\ handlers[r].request.api_key = ""
        /\ ValidRequest(handlers[r].request)
        /\ handlers[r].status = 400

\* C3: a request whose provider is outside the enum is answered 400 "Invalid
\* provider", whatever its other fields, with no provider call and no insert
C3_InvalidProviderIs400 ==
    \A r \in 1..Len(handlers) :
        LET h == handlers[r]
        IN  h.request.provider \notin Providers =>
              /\ h.pc = "done"
              /\ h.status = 400
              /\ h.detail = "Invalid provider"
              /\ h.provider_calls = 0
              /\ h.inserts = 0

\* C4: a request that passes validation and credential resolution makes
\* exactly one outbound provider call, at every moment of its handling; when
\* that call raises, the request is answered 500 at once, with no further
\* call and no insert
C4_ExactlyOneProviderCall ==
    \A r \in 1..Len(handlers) :
        LET h == handlers[r]
        IN  ValidRequest(h.request) /\ ~NoUsableKey(h.request) =>
              /\ h.provider_calls = 1
              /\ h.outcome = "raised" =>
                   /\ h.pc = "done"
                   /\ h.status = 500
                   /\ h.inserts = 0
                   /\ h.body = <<>>

\* every helper's call has raised for some request: here the one of groq
C4_Witness ==
    \E r \in 1..Len(handlers) :
        /\ handlers[r].request.provider = "groq"
        /\ handlers[r].outcome = "raised"
        /\ handlers[r].status = 500
        /\ handlers[r].provider_calls = 1

\* C7: once the provider has returned a reply, whatever its shape, the
\* request does not end in an error
C7_ReplyShapeNeverFails ==
    \A r \in 1..Len(handlers) :
        handlers[r].outcome = "returned" => handlers[r].status \in {0, 200}

(***************************************************************************)
(* Properties of the normalizer (SpecNormalizer)                           *)
(***************************************************************************)
\* the prompt list holds exactly these strings, in this order
IsListOfStrings(prompts_list, strings) ==
    /\ Len(prompts_list) = Len(strings)
    /\ \A i \in 1..Len(strings) :
          prompts_list[i].t = "str" /\ prompts_list[i].v = strings[i]

\* C5 as stated: every list of distinct strings, encoded as a JSON array in a
\* json-flavoured fenced block, comes back from the normalizer unchanged
C5_RoundTripEveryList ==
    n_pc = "parsed_fenced" => IsListOfStrings(n_prompts, n_list)

\* C5, amended: every list of distinct strings none of which holds three
\* backquotes in a row comes back from the normalizer unchanged, in order
C5_RoundTripWithoutFenceInside ==
    (n_pc = "parsed_fenced" /\ \A i \in 1..Len(n_list) : ~PyContains(n_list[i], Fence))
        => IsListOfStrings(n_prompts, n_list)

\* the scenario's two prompts came back unchanged
C5_Witness ==
    /\ n_pc = "parsed_fenced"
    /\ n_list = ScenarioList
    /\ IsListOfStrings(n_prompts, ScenarioList)

\* The fallback's result stated on the characters of the text: a line runs
\* from after a newline (or the start) to before the next newline (or the
\* end); it is blank when it holds only whitespace.
LeadingRunChars == Digits \cup {".", "-", ")", " "}
LineBreaks(text) == {i \in 1..Len(text) : text[i] = "\n"}
LineStarts(text) == {0} \cup LineBreaks(text)
LineEnd(text, b) ==
    LET after == {i \in LineBreaks(text) \cup {Len(text) + 1} : i > b}
    IN  CHOOSE i \in after : \A j \in after : i <= j
Inked(text, b) == {i \in (b + 1)..(LineEnd(text, b) - 1) : text[i] \notin PyWhitespace}
NonBlankLines(text) == {b \in LineStarts(text) : Inked(text, b) # {}}
\* the line with the whitespace around it and then its leading run removed
CleanedLine(text, b) ==
    LET ink == Inked(text, b)
        first == CHOOSE i \in ink : \A j \in ink : i <= j
        final == CHOOSE i \in ink : \A j \in ink : i >= j
        body == {i \in first..final : text[i] \notin LeadingRunChars} \cup {final + 1}
        start == CHOOSE i \in body : \A j \in body : i <= j
    IN  [k \in 1..(final - start + 1) |-> text[start + k - 1]]

\* C6: for a reply without a fence marker that does not decode to a JSON
\* list, the prompt list is, in order, the non-blank lines of the text, each
\* trimmed and with its leading run of digits, '.', '-', ')' and spaces
\* removed
C6_FallbackIsCleanedLines ==
    (/\ n_pc = "parsed_reply"
     /\ ~PyContains(n_text, Fence)
     /\ ~(JsonLoads(n_text).ok /\ JsonLoads(n_text).val.t = "list"))
    => /\ Len(n_prompts) = Cardinality(NonBlankLines(n_text))
       /\ \A b \in NonBlankLines(n_text) :
            LET k == Cardinality({x \in NonBlankLines(n_text) : x <= b})
            IN  /\ n_prompts[k].t = "str"
                /\ n_prompts[k].v = CleanedLine(n_text, b)

\* the numbered list "1. foo" / "2) bar" gave foo and bar
C6_Witness ==
    /\ n_pc = "parsed_reply"
    /\ n_text = NumberedListReply
    /\ IsListOfStrings(n_prompts, << <<"f", "o", "o">>, <<"b", "a", "r">> >>)

\* the except branch was taken: the (extracted) text did not decode to a
\* JSON list
TookFallback(response_text) ==
    \E r \in {JsonLoads(ExtractFenced(response_text))} :
        ~(r.ok /\ r.val.t = "list")

\* C11: whenever the normalizer takes the line-split fallback, every element
\* of the resulting prompt list is a non-empty string; a line that is empty
\* once its leading run is stripped ("1.", "---", "2)") is not in the list
C11_FallbackElementsNonEmpty ==
    (/\ n_pc \in {"parsed_reply", "parsed_fenced"}
     /\ TookFallback(n_text))
    => \A k \in 1..Len(n_prompts) :
         /\ n_prompts[k].t = "str"
         /\ n_prompts[k].v # <<>>

(***************************************************************************)
(* Properties of the records (Spec)                                        *)
(***************************************************************************)
\* two answered calls of generate with the same request body to which the
\* provider returned the same text
SameCallTwice(r1, r2) ==
    /\ r1 # r2
    /\ handlers[r1].status = 200
    /\ handlers[r2].status = 200
    /\ handlers[r1].request = handlers[r2].request
    /\ handlers[r1].response_text = handlers[r2].response_text

Stored(generation) ==
    \E i \in 1..Len(prompt_generations) : prompt_generations[i] = GenerationDoc(generation)

EchoesAndPromptsAgree(g1, g2) ==
    /\ g1.prompts = g2.prompts
    /\ g1.keyword = g2.keyword
    /\ g1.style = g2.style
    /\ g1.provider = g2.provider
    /\ g1.model = g2.model
    /\ g1.quantity = g2.quantity
    /\ g1.output_format = g2.output_format

\* C8 as stated: the two records have different identifiers and different
\* timestamps, the same prompt list and echoed fields, and both are stored
C8_TwoCallsDifferInIdAndTime ==
    \A r1, r2 \in 1..Len(handlers) :
        SameCallTwice(r1, r2) =>
            LET g1 == handlers[r1].body[1]
                g2 == handlers[r2].body[1]
            IN  /\ g1.id # g2.id
                /\ g1.created_at # g2.created_at
                /\ EchoesAndPromptsAgree(g1, g2)
                /\ Stored(g1) /\ Stored(g2)
                /\ Len(prompt_generations) >= 2

\* C8, amended: the two records have different identifiers, the same prompt
\* list and echoed fields, and both are stored; their timestamps are two
\* readings of the clock, which need not differ
C8_TwoCallsDifferInId ==
    \A r1, r2 \in 1..Len(handlers) :
        SameCallTwice(r1, r2) =>
            LET g1 == handlers[r1].body[1]
                g2 == handlers[r2].body[1]
            IN  /\ g1.id # g2.id
                /\ EchoesAndPromptsAgree(g1, g2)
                /\ Stored(g1) /\ Stored(g2)
                /\ Len(prompt_generations) >= 2

\* the same call was answered twice
C8_Witness ==
    /\ Len(handlers) = 2
    /\ SameCallTwice(1, 2)
    /\ handlers[1].body[1].prompts = handlers[2].body[1].prompts
    /\ Len(prompt_generations) = 2

\* the favorites without the first one whose identifier is id
WithoutFavorite(id) ==
    LET hits == {i \in 1..Len(favorites) : favorites[i].id = id}
        first == CHOOSE i \in hits : \A j \in hits : i <= j
    IN  [k \in 1..(Len(favorites) - 1) |->
            IF k < first THEN favorites[k] ELSE favorites[k + 1]]

\* C9: a delete of an identifier that no stored favorite has is answered 404
\* and leaves the favorites as they are; a delete of a stored identifier is
\* answered 200 and removes the favorite with that identifier and no other
C9_DeleteFavorite ==
    [][ (last'.route = "delete_favorite" /\ ncalls' = ncalls + 1) =>
          LET id == last'.arg
          IN  IF \E i \in 1..Len(favorites) : favorites[i].id = id
              THEN /\ last'.status = 200
                   /\ favorites' = WithoutFavorite(id)
                   /\ \A i \in 1..Len(favorites') : favorites'[i].id # id
              ELSE /\ last'.status = 404
                   /\ favorites' = favorites ]_vars

\* one of two stored favorites was deleted and the other is still stored
C9_Witness ==
    /\ last.route = "delete_favorite"
    /\ last.status = 200
    /\ Len(favorites) = 1
    /\ favorites[1].id # last.arg

\* C10: a step of any route leaves every stored PromptGeneration where it is
\* and as it is; the collection changes only when a generate call's insert
\* completes, which is answered 200, and then by that call's one record
C10_AppendOnly ==
    [][ \/ prompt_generations' = prompt_generations
        \/ \E r \in 1..Len(handlers) :
              /\ handlers[r].pc = "insert"
              /\ handlers'[r].pc = "done"
              /\ handlers'[r].status = 200
              /\ Len(prompt_generations') = Len(prompt_generations) + 1
              /\ SubSeq(prompt_generations', 1, Len(prompt_generations)) = prompt_generations
              /\ prompt_generations'[Len(prompt_generations')]
                    = GenerationDoc(handlers'[r].body[1]) ]_vars

\* two records are stored and the history, read afterwards, returned both
C10_Witness ==
    /\ Len(prompt_generations) = 2
    /\ last.route = "get_history"
    /\ Len(last.body) = 2

====
